---- MODULE Spec2Model ----
(***************************************************************************)
(* Model of src/Scraper.py: the URL discoverer search_urls and the harvest *)
(* loop of main().  URLs are opaque identifiers 1..NumUrls; a scrape       *)
(* record is represented by its url field.  The search provider            *)
(* (DDGS.text) and the HTTP fetch inside scrape_page are external and are  *)
(* modelled as nondeterministic choices.  The text normalizer clean_text   *)
(* and the extraction of scrape_page (title, description, body) are        *)
(* modelled as functions of token sequences and checked on their own.      *)
(***************************************************************************)
EXTENDS Integers, Sequences, FiniteSets, TLC

\* ---------------------------------------------------------------- bounds
\* Target count (NUM_RESULTS = 30 in the source), scaled down.
NUM_RESULTS == 2
\* Number of distinct URLs the search provider can ever return.
NumUrls == 4
\* Longest result list the provider returns for one keyword.
MaxResLen == 1
\* Pure-function check of search_urls: URL alphabet, list length, largest
\* num_results.
NumSearchUrls == 2
MaxSearchLen == 2
MaxNum == 3

\* Text checks.  A text is a sequence of tokens and a token counts as one
\* character.  SentenceMin is the 20 of line 53, BodyMax the 2000 of line 111
\* and FirstElems the 10 of line 103, all scaled down.
SentenceMin == 1
BodyMax == 2
FirstElems == 1
\* Largest number of elements on a page, longest input of clean_text.
MaxElems == 2
MaxTextLen == 5

\* len(KEYWORDS)
NumKeywords == 3

URLS == 1..NumUrls
\* A result entry whose 'href' is missing or empty (falsy in line 31).
NoHref == 0

\* ---------------------------------------------------------------- helpers
Min(a, b) == IF a < b THEN a ELSE b

Range(s) == {s[i] : i \in 1..Len(s)}

Max(a, b) == IF a > b THEN a ELSE b

\* Python s[:n]; a negative n counts from the end.
Take(s, n) == SubSeq(s, 1, IF n >= 0 THEN Min(n, Len(s)) ELSE Max(Len(s) + n, 0))

\* Sequences over S of length <= n.
BSeq(S, n) == UNION {[1..k -> S] : k \in 0..n}

\* What ddg.text(keyword, max_results) can do for one keyword: raise
\* (ok = FALSE) or return a list of result entries, each with or without href.
ProviderResults(alphabet, maxlen) ==
    {[ok |-> FALSE, results |-> <<>>]}
        \cup {[ok |-> TRUE, results |-> r] : r \in BSeq(alphabet \cup {NoHref}, maxlen)}

KwResult == ProviderResults(URLS, MaxResLen)

\* URLs are opaque: the program only compares them for equality (lines 31,
\* 132, 141), so every run is a renaming of a run in which a URL that is not
\* known yet (not in `known`) is always the smallest such URL.  Only these
\* representatives are explored.
RECURSIVE InOrderOfAppearance(_, _)
InOrderOfAppearance(known, results) ==
    IF results = <<>> THEN TRUE
    ELSE LET h == Head(results) IN
         IF h = NoHref \/ h \in known
         THEN InOrderOfAppearance(known, Tail(results))
         ELSE /\ \A u \in URLS \ known : h <= u
              /\ InOrderOfAppearance(known \cup {h}, Tail(results))

\* ------------------------------------------------------------ search_urls
\* Lines 30-33: one result entry against the accumulator [seen, urls].
AddHrefNoSeenCheck(acc, href) ==
    IF href # NoHref
    THEN [seen |-> acc.seen \cup {href}, urls |-> Append(acc.urls, href)]
    ELSE acc

AddHref(acc, href) ==
    IF href # NoHref /\ href \notin acc.seen
    THEN [seen |-> acc.seen \cup {href}, urls |-> Append(acc.urls, href)]
    ELSE acc

\* Lines 29-33: the inner loop over one keyword's results.
RECURSIVE AddResults(_, _)
AddResults(acc, results) ==
    IF results = <<>> THEN acc
    ELSE AddResults(AddHref(acc, Head(results)), Tail(results))

\* Lines 27-35: the body of the keyword loop; a provider error is caught and
\* the keyword contributes nothing.
KeywordStep(acc, r) == IF r.ok THEN AddResults(acc, r.results) ELSE acc

\* Line 38: urls[:num_results]
Cap(found, num) == Take(found, num)

\* Lines 21-38 as a function of the provider's answers, kw[1..NumKeywords].
RECURSIVE SearchFromAborts(_, _, _)
SearchFromAborts(acc, kw, i) ==
    IF i > NumKeywords \/ ~kw[i].ok THEN acc
    ELSE SearchFromAborts(KeywordStep(acc, kw[i]), kw, i + 1)

RECURSIVE SearchFrom(_, _, _)
SearchFrom(acc, kw, i) ==
    IF i > NumKeywords THEN acc
    ELSE SearchFrom(KeywordStep(acc, kw[i]), kw, i + 1)

search_urls(kw, num) == Cap(SearchFrom([seen |-> {}, urls |-> <<>>], kw, 1).urls, num)

\* ------------------------------------------------------------- clean_text
\* Tokens of a text: a word character, a visible non-word character, two
\* whitespace characters, the period, the opening tag of an element that
\* line 46 removes, and the same tag written with character references.
WordChar == "a"
Punct == "!"
Space == " "
Newline == "\n"
Period == "."
NavTag == "<nav>"
NavEsc == "&lt;nav&gt;"
Tokens == {WordChar, Punct, Space, Newline, Period, NavTag, NavEsc}
Whitespace == {Space, Newline}

\* The fixed strings of lines 74, 95 and 99, one token each.
Sentinel == <<"No meaningful body text found.">>
NoTitle == <<"No title">>
NoDescription == <<"No description">>

\* Tokens in which \w matches somewhere.
WordTokens == {WordChar, NavTag, NavEsc} \cup Range(Sentinel)

\* Line 57 and its uses: WORD_PATTERN.search(text) finds a match.
HasWord(text) == \E i \in 1..Len(text) : text[i] \in WordTokens

\* The parser turns a character reference into the character it names.
Decode(c) == IF c = NavEsc THEN NavTag ELSE c

\* Lines 45-50: parse the text as HTML, remove the noise elements, take the
\* text that is left.  An element that is never closed runs to the end of
\* the input.
RECURSIVE VisibleText(_)
VisibleText(s) ==
    IF s = <<>> \/ Head(s) = NavTag THEN <<>>
    ELSE <<Decode(Head(s))>> \o VisibleText(Tail(s))

\* str.lstrip, str.rstrip, str.strip
RECURSIVE LStrip(_)
LStrip(s) == IF s # <<>> /\ Head(s) \in Whitespace THEN LStrip(Tail(s)) ELSE s

RECURSIVE RStrip(_)
RStrip(s) ==
    IF s # <<>> /\ s[Len(s)] \in Whitespace THEN RStrip(SubSeq(s, 1, Len(s) - 1)) ELSE s

Strip(s) == RStrip(LStrip(s))

\* Line 51: re.sub(r'\s+', ' ', text)
RECURSIVE CollapseWs(_)
CollapseWs(s) ==
    IF s = <<>> THEN <<>>
    ELSE IF Head(s) \in Whitespace THEN <<Space>> \o CollapseWs(LStrip(s))
    ELSE <<Head(s)>> \o CollapseWs(Tail(s))

\* str.split(sep): one fragment more than there are separators.
RECURSIVE Split(_, _)
Split(s, sep) ==
    IF \A i \in 1..Len(s) : s[i] # sep THEN <<s>>
    ELSE LET i == CHOOSE k \in 1..Len(s) :
                      s[k] = sep /\ \A j \in 1..(k - 1) : s[j] # sep
         IN <<SubSeq(s, 1, i - 1)>> \o Split(SubSeq(s, i + 1, Len(s)), sep)

\* sep.join(parts)
RECURSIVE Join(_, _)
Join(parts, sep) ==
    IF parts = <<>> THEN <<>>
    ELSE IF Len(parts) = 1 THEN parts[1]
    ELSE parts[1] \o sep \o Join(Tail(parts), sep)

\* Line 53: the condition of the sentence filter
LongEnough(s) == Len(Strip(s)) > SentenceMin

\* Line 53
Sentences(text) ==
    LET kept == SelectSeq(Split(text, Period), LongEnough)
    IN [i \in 1..Len(kept) |-> Strip(kept[i])]

\* Lines 40-55
clean_text(text) ==
    LET normalized == Strip(CollapseWs(VisibleText(text)))
        cleaned == Strip(Join(Sentences(normalized), <<Period, Space>>))
    IN IF cleaned # <<>> THEN cleaned \o <<Period>> ELSE <<>>

\* ------------------------------------------------------------- scrape_page
\* A fetched page as the parser presents it: the title element, the meta
\* element named description, and the elements of the body in document
\* order, each with its tag, whether its class matches line 102's pattern,
\* and its text.
NoElement == [present |-> FALSE, text |-> <<>>]
TitleElements == {NoElement, [present |-> TRUE, text |-> <<Space, WordChar, WordChar, WordChar>>]}

\* content is None when the element has no content attribute.
NoMeta == [present |-> FALSE, content |-> <<>>, has_content |-> FALSE]
MetaElements ==
    {NoMeta, [present |-> TRUE, content |-> <<>>, has_content |-> FALSE]}
        \cup {[present |-> TRUE, content |-> c, has_content |-> TRUE] :
                c \in {<<>>, <<Space>>, <<WordChar>>, <<Space, WordChar, Space>>}}

\* Element texts: visible non-word characters followed by word characters.
Run(c, n) == [i \in 1..n |-> c]
ElementTexts == {Run(Punct, i) \o Run(WordChar, j) : i \in 0..BodyMax, j \in 0..1}

Elements ==
    [tag : {"p", "div"}, class : BOOLEAN, text : ElementTexts]
        \cup [tag : {"nav", "script"}, class : {FALSE}, text : ElementTexts]

Pages == [title : TitleElements, meta : MetaElements, elems : BSeq(Elements, MaxElems)]

\* elem.get_text() for each element of a list
Texts(elems) == [i \in 1..Len(elems) |-> elems[i].text]

\* Lines 94-95
Title(soup) == IF soup.title.present THEN Strip(soup.title.text) ELSE NoTitle

\* Lines 98-99: desc.get('content', '') is '' for a missing attribute.
Description(soup) ==
    IF soup.meta.present
    THEN Strip(IF soup.meta.has_content THEN soup.meta.content ELSE <<>>)
    ELSE NoDescription

\* Line 102
IsBodyElement(e) == e.tag \in {"p", "article", "div"} /\ e.class

\* Lines 102-103
BodyText(soup) ==
    Join(Texts(Take(SelectSeq(soup.elems, IsBodyElement), FirstElems)), <<Space>>)

\* Line 67: the text of every p element
ParagraphsText(soup) ==
    Join(Texts(SelectSeq(soup.elems, LAMBDA e : e.tag = "p")), <<Space>>)

\* Line 68: soup.get_text(" ") joins every string of the document; the
\* contents of script elements are not among them (they are of class Script,
\* which get_text leaves out), those of nav elements are.
IsPageString(e) == e.tag # "script" /\ e.text # <<>>

PageText(soup) ==
    Join((IF soup.title.present /\ soup.title.text # <<>>
          THEN <<soup.title.text>> ELSE <<>>)
             \o Texts(SelectSeq(soup.elems, IsPageString)), <<Space>>)

\* Lines 60-74
ensure_body_has_words(soup, text) ==
    IF HasWord(text) THEN text
    ELSE LET paragraphs == clean_text(ParagraphsText(soup))
             document == clean_text(PageText(soup))
         IN IF HasWord(paragraphs) THEN paragraphs
            ELSE IF HasWord(document) THEN document
            ELSE Sentinel

\* Line 105: cleaned_body as it is before line 111 cuts it
CleanedBody(soup) == ensure_body_has_words(soup, clean_text(BodyText(soup)))

\* Line 111: cleaned_body[:2000]
BodyUncut(body) == body

Body(body) == Take(body, BodyMax)

\* Lines 107-112, without the url
Record(soup) ==
    [title |-> Title(soup),
     description |-> Description(soup),
     body |-> Body(CleanedBody(soup))]

\* ------------------------------------------------------------------ main
VARIABLES
    pc,               \* position in main(): start, discover, loop, backfill, save, done
                      \* (call, returned: the stand-alone search_urls check)
    urls,             \* main: urls, the candidate list
    scraped_data,     \* main: the corpus
    attempted,        \* main: the Attempted Set
    url_index,        \* main: number of candidates consumed
    extra_candidates, \* main: result of the most recent backfill call
    new_urls,         \* main: its survivors
    keyword_i,        \* search_urls: index of the next keyword
    seen,             \* search_urls: seen
    found,            \* search_urls: its local urls
    num_results,      \* search_urls: num_results
    calls,            \* history: the scrape_page calls made, with their outcome
    nbackfill,        \* history: number of backfill discovery calls
    output_file,      \* contents of OUTPUT_FILE
    writes,           \* history: number of times OUTPUT_FILE was written
    kw_errors,        \* history: keyword queries that raised in the discovery call in
                      \* progress (after the break of line 135: in the last one)
    answers,          \* deterministic provider: the answers it has given so far
    kw_results,       \* stand-alone check: the provider's answers
    ret,              \* stand-alone check: the list search_urls returned
    clean_in,         \* clean_text check: the text given to clean_text
    clean_once,       \* clean_text check: clean_text of it
    clean_twice,      \* clean_text check: clean_text of that
    page,             \* scrape_page check: soup, the fetched page
    cleaned_body,     \* scrape_page check: cleaned_body after line 105
    record            \* scrape_page check: the record returned

mainVars == <<urls, scraped_data, attempted, url_index, extra_candidates, new_urls>>
searchVars == <<keyword_i, seen, found, num_results>>
histVars == <<calls, nbackfill>>
provVars == <<kw_errors, answers>>
fileVars == <<output_file, writes>>
cleanVars == <<clean_in, clean_once, clean_twice>>
pageVars == <<page, cleaned_body, record>>
pureVars == <<kw_results, ret, cleanVars, pageVars>>
vars == <<pc, mainVars, searchVars, histVars, provVars, fileVars, pureVars>>

\* Line 129
LoopCondOffByOne(data) == Len(data) <= NUM_RESULTS

LoopCond(data) == Len(data) < NUM_RESULTS

\* Line 130
QueueExhaustedEarly(idx, candidates) == idx >= Len(candidates) - 1

QueueExhausted(idx, candidates) == idx >= Len(candidates)

\* Line 131: the batch size of a backfill call
BackfillSizeRemaining == 2 * (NUM_RESULTS - Len(scraped_data))

BackfillSize == NUM_RESULTS * 2

\* Line 132
NewUrlsUnfiltered(extra, att) == extra

NewUrls(extra, att) == SelectSeq(extra, LAMBDA u : u \notin att)

\* Line 133
NoNewUrlsNever(new) == FALSE

NoNewUrlsFew(new) == Len(new) <= 1

NoNewUrls(new) == new = <<>>

\* Line 143
MarkAttemptedForgets(att, url) == att

MarkAttempted(att, url) == att \cup {url}

\* Lines 76-116: scrape_page either returns a record for url or None.
scrape_page(url) == {[ok |-> TRUE, url |-> url], [ok |-> FALSE, url |-> url]}

\* Lines 147-150
AccumulateFront(data, r) == IF r.ok THEN <<[url |-> r.url]>> \o data ELSE data

AccumulateAlways(data, r) == Append(data, [url |-> r.url])

Accumulate(data, r) == IF r.ok THEN Append(data, [url |-> r.url]) ELSE data

\* The history counter nbackfill saturates here.  Every backfill but the last
\* of a run adds a URL that was never attempted, so a run makes at most
\* NumUrls + 1 backfill calls and the cap is never met (BackfillCountBelowCap).
BackfillCountCap == NumUrls + 2

\* Entry of search_urls(KEYWORDS, num): lines 21-23.
EnterSearch(num) ==
    /\ keyword_i' = 1
    /\ seen' = {}
    /\ found' = <<>>
    /\ num_results' = num

\* Return from search_urls: its frame (the locals) is gone.
LeaveSearch ==
    /\ keyword_i' = 1
    /\ seen' = {}
    /\ found' = <<>>
    /\ num_results' = 0

\* Nothing of main() has run.
Fresh ==
    /\ urls = <<>>
    /\ scraped_data = <<>>
    /\ attempted = {}
    /\ url_index = 0
    /\ extra_candidates = <<>>
    /\ new_urls = <<>>
    /\ keyword_i = 1
    /\ seen = {}
    /\ found = <<>>
    /\ calls = <<>>
    /\ nbackfill = 0
    /\ output_file = <<>>
    /\ writes = 0
    /\ kw_errors = 0
    /\ answers = {}

\* No text has been cleaned.
NoClean ==
    /\ clean_in = <<>>
    /\ clean_once = <<>>
    /\ clean_twice = <<>>

\* No page has been fetched.
NoPage == [title |-> NoElement, meta |-> NoMeta, elems |-> <<>>]
NoRecord == [title |-> <<>>, description |-> <<>>, body |-> <<>>]
NoScrape ==
    /\ page = NoPage
    /\ cleaned_body = <<>>
    /\ record = NoRecord

Init ==
    /\ pc = "start"
    /\ Fresh
    /\ num_results = 0
    /\ kw_results = <<>>
    /\ ret = <<>>
    /\ NoClean
    /\ NoScrape

\* Line 124: the initial discovery call.
Start ==
    /\ pc = "start"
    /\ pc' = "discover"
    /\ EnterSearch(NUM_RESULTS)
    /\ kw_errors' = 0
    /\ UNCHANGED <<mainVars, histVars, answers, fileVars, pureVars>>

\* Lines 27-35 with r the outcome of ddg.text(keyword, max_results).
QueryKeyword(r) ==
    /\ LET acc == KeywordStep([seen |-> seen, urls |-> found], r) IN
         /\ seen' = acc.seen
         /\ found' = acc.urls
    /\ kw_errors' = IF r.ok THEN kw_errors ELSE kw_errors + 1
    /\ keyword_i' = keyword_i + 1

\* Lines 26-35: one iteration of the keyword loop of search_urls.
SearchKeyword ==
    /\ pc \in {"discover", "backfill"}
    /\ keyword_i <= NumKeywords
    /\ \E r \in KwResult :
          /\ InOrderOfAppearance(Range(urls) \cup seen, r.results)
          /\ QueryKeyword(r)
    /\ UNCHANGED <<pc, num_results, mainVars, histVars, answers, fileVars, pureVars>>

\* Line 38 returning into lines 124-127.
InitialReturn ==
    /\ pc = "discover"
    /\ keyword_i > NumKeywords
    /\ urls' = Cap(found, num_results)
    /\ scraped_data' = <<>>
    /\ attempted' = {}
    /\ url_index' = 0
    /\ pc' = "loop"
    /\ LeaveSearch
    /\ kw_errors' = 0
    /\ UNCHANGED <<extra_candidates, new_urls, histVars, answers, fileVars, pureVars>>

\* Lines 129-131: queue exhausted below target, the backfill discovery call.
BackfillCall ==
    /\ pc = "loop"
    /\ LoopCond(scraped_data)
    /\ QueueExhausted(url_index, urls)
    /\ pc' = "backfill"
    /\ EnterSearch(BackfillSize)
    /\ nbackfill' = Min(nbackfill + 1, BackfillCountCap)
    /\ kw_errors' = 0
    /\ UNCHANGED <<mainVars, calls, answers, fileVars, pureVars>>

\* Line 38 returning into lines 131-137.  After the extend-and-continue of
\* lines 136-137 extra_candidates and new_urls are dead (line 131 overwrites
\* them before any read), so they are kept only on the break path.
BackfillReturn ==
    /\ pc = "backfill"
    /\ keyword_i > NumKeywords
    /\ LET extra == Cap(found, num_results)
           new == NewUrls(extra, attempted)
       IN  IF NoNewUrls(new)
           THEN /\ pc' = "save"
                /\ urls' = urls
                /\ extra_candidates' = extra
                /\ new_urls' = new
                /\ kw_errors' = kw_errors
           ELSE /\ pc' = "loop"
                /\ urls' = urls \o new
                /\ extra_candidates' = <<>>
                /\ new_urls' = <<>>
                /\ kw_errors' = 0
    /\ LeaveSearch
    /\ UNCHANGED <<scraped_data, attempted, url_index, histVars, answers, fileVars,
                   pureVars>>

\* Lines 139-150: consume the next candidate.
Dispatch ==
    /\ pc = "loop"
    /\ LoopCond(scraped_data)
    /\ ~QueueExhausted(url_index, urls)
    /\ LET url == urls[url_index + 1] IN
         /\ url_index' = url_index + 1
         /\ IF url \in attempted
            THEN UNCHANGED <<attempted, scraped_data, calls>>
            ELSE \E data \in scrape_page(url) :
                   /\ attempted' = MarkAttempted(attempted, url)
                   /\ calls' = Append(calls, data)
                   /\ scraped_data' = Accumulate(scraped_data, data)
    /\ UNCHANGED <<pc, urls, extra_candidates, new_urls, searchVars, nbackfill,
                   provVars, fileVars, pureVars>>

\* Line 129: the loop condition is false.
LoopExit ==
    /\ pc = "loop"
    /\ ~LoopCond(scraped_data)
    /\ pc' = "save"
    /\ UNCHANGED <<mainVars, searchVars, histVars, provVars, fileVars, pureVars>>

\* Line 154: json.dump writes the list it is given, in list order.
PersistedNewest(data) == IF data = <<>> THEN <<>> ELSE <<data[Len(data)]>>

Persisted(data) == data

\* Lines 153-154
Save ==
    /\ pc = "save"
    /\ output_file' = Persisted(scraped_data)
    /\ writes' = writes + 1
    /\ pc' = "done"
    /\ UNCHANGED <<mainVars, searchVars, histVars, provVars, pureVars>>

Next ==
    \/ Start
    \/ SearchKeyword
    \/ InitialReturn
    \/ BackfillCall
    \/ BackfillReturn
    \/ Dispatch
    \/ LoopExit
    \/ Save

Spec == Init /\ [][Next]_vars

\* main() is a sequential program: it always takes its next step.
FairSpec == Spec /\ WF_vars(Next)

\* -------------------------------------------------- deterministic provider
\* search_urls keeps nothing between calls (seen and urls are locals), so
\* with a provider that answers a repeated query (same keyword, same
\* max_results) as it answered it before, errors included, a repeated call
\* search_urls(KEYWORDS, n) finds what the first such call found.  `answers`
\* records, per n, what the keyword loop of the first call found.
Given(n) == {a \in answers : a.max_results = n}

\* Lines 26-35 in the first call with this num_results: the provider is free.
SearchKeywordDet ==
    /\ pc \in {"discover", "backfill"}
    /\ keyword_i <= NumKeywords
    /\ Given(num_results) = {}
    /\ \E r \in KwResult :
          /\ InOrderOfAppearance(Range(urls) \cup seen, r.results)
          /\ QueryKeyword(r)
    /\ answers' = IF keyword_i = NumKeywords
                  THEN answers \cup {[max_results |-> num_results,
                                      found |-> found',
                                      errors |-> kw_errors']}
                  ELSE answers
    /\ UNCHANGED <<pc, num_results, mainVars, histVars, fileVars, pureVars>>

\* Lines 26-35 in a later call with this num_results: every query is answered
\* as before, so the loop ends with the same seen and urls.
SearchReplay ==
    /\ pc \in {"discover", "backfill"}
    /\ keyword_i <= NumKeywords
    /\ \E a \in Given(num_results) :
          /\ found' = a.found
          /\ seen' = Range(a.found)
          /\ kw_errors' = a.errors
    /\ keyword_i' = NumKeywords + 1
    /\ UNCHANGED <<pc, num_results, mainVars, histVars, answers, fileVars, pureVars>>

NextDet ==
    \/ Start
    \/ SearchKeywordDet
    \/ SearchReplay
    \/ InitialReturn
    \/ BackfillCall
    \/ BackfillReturn
    \/ Dispatch
    \/ LoopExit
    \/ Save

SpecDet == Init /\ [][NextDet]_vars

\* ------------------------------------------- search_urls as a pure function
\* The provider's answers for the NumKeywords queries of one call, one after
\* the other.
RECURSIVE AllResults(_, _)
AllResults(kw, i) ==
    IF i > NumKeywords THEN <<>> ELSE kw[i].results \o AllResults(kw, i + 1)

SearchInputs == [1..NumKeywords -> ProviderResults(1..NumSearchUrls, MaxSearchLen)]

InitSearch ==
    /\ pc = "call"
    /\ Fresh
    /\ kw_results \in SearchInputs
    /\ InOrderOfAppearance({}, AllResults(kw_results, 1))
    /\ num_results \in 0..MaxNum
    /\ ret = <<>>
    /\ NoClean
    /\ NoScrape

\* One call search_urls(KEYWORDS, num_results), lines 16-38.
SearchCall ==
    /\ pc = "call"
    /\ ret' = search_urls(kw_results, num_results)
    /\ pc' = "returned"
    /\ UNCHANGED <<mainVars, searchVars, histVars, provVars, fileVars, kw_results,
                   cleanVars, pageVars>>

NextSearch == SearchCall

SpecSearch == InitSearch /\ [][NextSearch]_vars

\* -------------------------------------------- clean_text as a pure function
InitClean ==
    /\ pc = "text"
    /\ Fresh
    /\ num_results = 0
    /\ kw_results = <<>>
    /\ ret = <<>>
    /\ clean_in \in BSeq(Tokens, MaxTextLen)
    /\ clean_once = <<>>
    /\ clean_twice = <<>>
    /\ NoScrape

\* clean_text, lines 40-55, applied to a text.
CleanOnce ==
    /\ pc = "text"
    /\ clean_once' = clean_text(clean_in)
    /\ pc' = "cleaned"
    /\ UNCHANGED <<mainVars, searchVars, histVars, provVars, fileVars, kw_results,
                   ret, clean_in, clean_twice, pageVars>>

\* clean_text applied to what it returned.
CleanTwice ==
    /\ pc = "cleaned"
    /\ clean_twice' = clean_text(clean_once)
    /\ pc' = "recleaned"
    /\ UNCHANGED <<mainVars, searchVars, histVars, provVars, fileVars, kw_results,
                   ret, clean_in, clean_once, pageVars>>

NextClean == CleanOnce \/ CleanTwice

SpecClean == InitClean /\ [][NextClean]_vars

\* ------------------------------------ the extraction of scrape_page, pure
\* The page is the one that requests.get returned (lines 89-92).
InitExtract ==
    /\ pc = "fetched"
    /\ Fresh
    /\ num_results = 0
    /\ kw_results = <<>>
    /\ ret = <<>>
    /\ NoClean
    /\ page \in Pages
    /\ cleaned_body = <<>>
    /\ record = NoRecord

\* Lines 94-112 for a page that fetched successfully.
Extract ==
    /\ pc = "fetched"
    /\ cleaned_body' = CleanedBody(page)
    /\ record' = Record(page)
    /\ pc' = "extracted"
    /\ UNCHANGED <<mainVars, searchVars, histVars, provVars, fileVars, kw_results,
                   ret, cleanVars, page>>

NextExtract == Extract

SpecExtract == InitExtract /\ [][NextExtract]_vars

\* ----------------------------------------------------------------- claims
Done == pc \in {"save", "done"}

IsPrefix(s, t) == Len(s) <= Len(t) /\ SubSeq(t, 1, Len(s)) = s

NoDuplicates(s) == \A i, j \in 1..Len(s) : s[i] = s[j] => i = j

Failed(c) == ~c.ok

SomeCall(P(_)) == \E i \in 1..Len(calls) : P(calls[i])

\* The history counter never saturates.
BackfillCountBelowCap == nbackfill < BackfillCountCap

\* C1: no URL is passed to scrape_page twice within one run, whether its
\* earlier attempt succeeded or failed.
C1_NoDoubleDispatch ==
    \A i, j \in 1..Len(calls) : calls[i].url = calls[j].url => i = j

\* A finished run whose last backfill returned only URLs attempted before,
\* among them a failed and a successful one.
C1_Witness ==
    /\ pc = "done"
    /\ \E i, j \in 1..Len(calls) :
          /\ ~calls[i].ok /\ calls[i].url \in Range(extra_candidates)
          /\ calls[j].ok /\ calls[j].url \in Range(extra_candidates)

\* C2: the corpus never holds more than NUM_RESULTS records (so nothing is
\* appended to a corpus of NUM_RESULTS records).
C2_CorpusBound == Len(scraped_data) <= NUM_RESULTS

\* The corpus is full while candidates are still queued.
C2_Witness ==
    /\ pc = "loop"
    /\ Len(scraped_data) = NUM_RESULTS
    /\ url_index < Len(urls)

\* C3: once the loop has ended, either the corpus holds NUM_RESULTS records,
\* or it holds fewer, the most recent backfill call returned no URL outside
\* the Attempted Set and no candidate of the list is unattempted.
C3_DoneTargetOrExhausted ==
    Done =>
        \/ Len(scraped_data) = NUM_RESULTS
        \/ /\ Len(scraped_data) < NUM_RESULTS
           /\ nbackfill >= 1
           /\ Range(extra_candidates) \subseteq attempted
           /\ url_index = Len(urls)
           /\ Range(urls) \subseteq attempted

\* The loop ended below target after a backfill that returned only attempted
\* URLs.
C3_Witness ==
    /\ Done
    /\ Len(scraped_data) < NUM_RESULTS
    /\ extra_candidates # <<>>
    /\ nbackfill >= 2

\* C4: with finitely many URLs the run always reaches DONE.
C4_Terminates == <>(pc = "done")

\* A finished run in which every fetch failed and the initial discovery
\* returned fewer than NUM_RESULTS URLs.
C4_Witness ==
    /\ pc = "done"
    /\ nbackfill >= 2
    /\ Len(calls) >= NUM_RESULTS
    /\ \A i \in 1..Len(calls) : ~calls[i].ok

C6_FailureStep ==
    (Len(calls') = Len(calls) + 1 /\ ~calls'[Len(calls')].ok) =>
        /\ scraped_data' = scraped_data
        /\ calls'[Len(calls')].url \in attempted'
        /\ pc' = "loop"

C6_AttemptedIsDispatched ==
    /\ attempted = {calls[i].url : i \in 1..Len(calls)}
    /\ Cardinality(attempted) = Len(calls)
    /\ \A i \in 1..Len(calls) :
          ~calls[i].ok => \A k \in 1..Len(scraped_data) : scraped_data[k].url # calls[i].url

C6_FailureRecovered == [][C6_FailureStep]_vars /\ []C6_AttemptedIsDispatched

\* Two failures precede NUM_RESULTS successes: NUM_RESULTS + 2 attempted URLs.
C6_Witness ==
    /\ pc = "done"
    /\ Len(calls) = NUM_RESULTS + 2
    /\ ~calls[1].ok /\ ~calls[2].ok
    /\ \A i \in 3..Len(calls) : calls[i].ok
    /\ Cardinality(attempted) = NUM_RESULTS + 2

\* C7: the corpus is the subsequence of the consumed candidates whose
\* extraction succeeded, in candidate-list order; the candidate list and the
\* corpus only ever grow at their end.
Succeeded(u) == \E i \in 1..Len(calls) : calls[i].url = u /\ calls[i].ok

C7_CorpusIsSubsequence ==
    LET ok == SelectSeq(SubSeq(urls, 1, url_index), Succeeded) IN
        scraped_data = [k \in 1..Len(ok) |-> [url |-> ok[k]]]

C7_CorpusOrder ==
    /\ []C7_CorpusIsSubsequence
    /\ [][IsPrefix(scraped_data, scraped_data') /\ IsPrefix(urls, urls')]_vars

\* A record of the initial batch, then a failure, then a record of a backfill
\* batch.
C7_Witness ==
    /\ Len(scraped_data) = 2
    /\ Len(calls) = 3
    /\ calls[1].ok /\ ~calls[2].ok /\ calls[3].ok
    /\ nbackfill >= 1
    /\ scraped_data[1].url = urls[1]
    /\ scraped_data[2].url = urls[3]

\* C8: a backfill call is in progress only when every candidate has been
\* consumed and attempted and the corpus is below target; the first backfill
\* of a run happens only if the initial discovery returned fewer than
\* NUM_RESULTS URLs or some fetch failed.
C8_BackfillOnlyWhenExhausted ==
    pc = "backfill" =>
        /\ url_index >= Len(urls)
        /\ Range(urls) \subseteq attempted
        /\ Len(scraped_data) < NUM_RESULTS
        /\ nbackfill = 1 => (Len(urls) < NUM_RESULTS \/ SomeCall(Failed))

\* A second backfill call, made with a non-empty corpus.
C8_Witness ==
    /\ pc = "backfill"
    /\ nbackfill >= 2
    /\ Len(scraped_data) >= 1

\* C9: every URL a backfill appends to the candidate list is absent from the
\* Attempted Set at the moment it is appended.
C9_AppendStep ==
    (pc = "backfill" /\ urls' # urls) =>
        \A i \in (Len(urls) + 1)..Len(urls') : urls'[i] \notin attempted

C9_NoAttemptedReenqueued == [][C9_AppendStep]_vars

\* A backfill about to return a list holding both attempted and new URLs.
C9_Witness ==
    /\ pc = "backfill"
    /\ keyword_i > NumKeywords
    /\ Range(found) \cap attempted # {}
    /\ Range(found) \ attempted # {}

\* C10: search_urls returns a list without repeated URL, no longer than
\* num_results, equal to the first num_results entries of the
\* first-occurrence-wins merge of the keywords' results in keyword order,
\* entries without href skipped.
Hrefs(kw) == SelectSeq(AllResults(kw, 1), LAMBDA h : h # NoHref)

FirstOccurrences(s) ==
    LET keep == {i \in 1..Len(s) : \A j \in 1..(i - 1) : s[j] # s[i]}
        nth(k) == CHOOSE i \in keep : Cardinality({j \in keep : j <= i}) = k
    IN  [k \in 1..Cardinality(keep) |-> s[nth(k)]]

C10_SearchUrlsMerge ==
    pc = "returned" =>
        LET merged == FirstOccurrences(Hrefs(kw_results)) IN
            /\ NoDuplicates(ret)
            /\ Len(ret) <= num_results
            /\ Len(ret) = Min(num_results, Len(merged))
            /\ \A k \in 1..Len(ret) : ret[k] = merged[k]

\* A call whose answers repeat a URL, hold an entry without href and merge to
\* more than num_results URLs.
C10_Witness ==
    /\ pc = "returned"
    /\ ret # <<>>
    /\ Len(FirstOccurrences(Hrefs(kw_results))) > num_results
    /\ ~NoDuplicates(Hrefs(kw_results))
    /\ NoHref \in Range(AllResults(kw_results, 1))

\* C11: a keyword whose query raises contributes nothing and the remaining
\* keywords are still queried: the call returns the first num_results entries
\* of the merge of the answers of the keywords that did not fail.
RECURSIVE OkResults(_, _)
OkResults(kw, i) ==
    IF i > NumKeywords THEN <<>>
    ELSE (IF kw[i].ok THEN kw[i].results ELSE <<>>) \o OkResults(kw, i + 1)

C11_FailedKeywordSkipped ==
    (pc = "returned" /\ \E i \in 1..NumKeywords : ~kw_results[i].ok) =>
        LET merged == FirstOccurrences(SelectSeq(OkResults(kw_results, 1),
                                                 LAMBDA h : h # NoHref))
        IN  /\ Len(ret) = Min(num_results, Len(merged))
            /\ \A k \in 1..Len(ret) : ret[k] = merged[k]
            /\ \A i \in 1..NumKeywords :
                  (kw_results[i].ok /\ Len(merged) <= num_results) =>
                      Range(kw_results[i].results) \ {NoHref} \subseteq Range(ret)

\* The second keyword failed, and the returned list holds a URL of the first
\* and a URL only the third keyword returned.
C11_Witness ==
    /\ pc = "returned"
    /\ ~kw_results[2].ok
    /\ kw_results[1].ok /\ kw_results[3].ok
    /\ Range(kw_results[1].results) \cap Range(ret) # {}
    /\ (Range(kw_results[3].results) \ Range(kw_results[1].results)) \cap Range(ret) # {}

\* C12: OUTPUT_FILE is written once per run, after the loop has ended, with
\* the whole corpus in corpus order; nothing is written before.
C12_PersistedOnceAfterLoop ==
    /\ writes <= 1
    /\ pc \in {"start", "discover", "loop", "backfill", "save"} =>
          (writes = 0 /\ output_file = <<>>)
    /\ pc = "done" => (writes = 1 /\ output_file = scraped_data)

\* A finished run that needed a backfill and wrote NUM_RESULTS records.
C12_Witness ==
    /\ pc = "done"
    /\ writes = 1
    /\ nbackfill >= 1
    /\ Len(output_file) = NUM_RESULTS

\* C18: at every evaluation of the loop condition the Attempted Set is the
\* set of the url_index candidates consumed so far, all distinct; the
\* candidate list holds no URL twice and no queued candidate is attempted, so
\* the skip of lines 141-142 is never taken.
C18_AttemptedIsConsumedPrefix ==
    /\ NoDuplicates(urls)
    /\ pc = "loop" =>
          /\ attempted = Range(SubSeq(urls, 1, url_index))
          /\ Cardinality(attempted) = url_index
          /\ Len(calls) = url_index
          /\ \A i \in (url_index + 1)..Len(urls) : urls[i] \notin attempted

\* The loop condition is evaluated with candidates of a backfill consumed and
\* another one queued.
C18_Witness ==
    /\ pc = "loop"
    /\ nbackfill >= 1
    /\ url_index > NUM_RESULTS
    /\ url_index < Len(urls)

\* C20: a backfill call in which every keyword query raised returns the empty
\* list and takes the exit of lines 133-135: the loop ends with the corpus
\* unchanged and below NUM_RESULTS, and no further discovery call is made.
C20_AllFailedStep ==
    /\ (pc = "backfill" /\ keyword_i > NumKeywords /\ kw_errors = NumKeywords) =>
          /\ pc' = "save"
          /\ extra_candidates' = <<>>
          /\ scraped_data' = scraped_data
          /\ Len(scraped_data) < NUM_RESULTS
    /\ Done => (pc' \in {"save", "done"} /\ nbackfill' = nbackfill)

C20_AllFailedSoFar ==
    (pc = "backfill" /\ kw_errors = keyword_i - 1) => found = <<>>

C20_ProviderOutageEndsRun == [][C20_AllFailedStep]_vars /\ []C20_AllFailedSoFar

\* A run ended by a backfill whose queries all raised, after it had attempted
\* some but not all of the URLs the provider knows.
C20_Witness ==
    /\ pc = "done"
    /\ kw_errors = NumKeywords
    /\ nbackfill >= 1
    /\ Len(scraped_data) < NUM_RESULTS
    /\ attempted # {}
    /\ Cardinality(attempted) < NumUrls

\* C19: with a deterministic provider a run makes at most two backfill calls,
\* the second of which ends it below target, and attempts only URLs of the
\* initial batch (<= NUM_RESULTS) and of the one backfill batch
\* (<= 2 x NUM_RESULTS), hence at most 3 x NUM_RESULTS URLs.
Pool(n) == UNION {Range(a.found) : a \in Given(n)}

Extracted == pc = "extracted"

\* cleaned_body contains a word when line 105 has run; line 111 is not part
\* of this.
BodyHasWordBeforeCut == Extracted => HasWord(cleaned_body)

\* C13: the body of the record of every page that fetched successfully,
\* after the fallback chain and after the prefix cut, contains at least one
\* word character.
C13_BodyHasWord == Extracted => HasWord(record.body)

\* The only text of the page lies inside nav and script elements.
OnlyNavAndScriptText(soup) ==
    /\ ~soup.title.present
    /\ \A i \in 1..Len(soup.elems) :
          soup.elems[i].text # <<>> => soup.elems[i].tag \in {"nav", "script"}

\* C14: for a page whose only text lies inside nav and script elements the
\* body of the record is the sentinel; no nav or script content reaches it.
C14_NavScriptOnlyGivesSentinel ==
    Extracted /\ OnlyNavAndScriptText(page) => record.body = Sentinel

\* C15: the body of every record is at most BodyMax long and is exactly the
\* prefix of that length of the text that normalization and the fallback
\* chain produced; a shorter text is stored unchanged.
C15_BodyIsPrefixCut ==
    Extracted =>
        /\ Len(record.body) = Min(Len(cleaned_body), BodyMax)
        /\ IsPrefix(record.body, cleaned_body)

C15_Witness ==
    /\ Extracted
    /\ Len(cleaned_body) > BodyMax
    /\ Len(record.body) = BodyMax
    /\ record.body # cleaned_body

\* No whitespace but single spaces between other characters.
WhitespaceNormalized(x) ==
    /\ \A i \in 1..Len(x) : x[i] # Newline
    /\ \A i \in 1..(Len(x) - 1) : ~(x[i] = Space /\ x[i + 1] = Space)
    /\ x # <<>> => x[1] # Space /\ x[Len(x)] # Space

PeriodTerminated(x) == x # <<>> /\ x[Len(x)] = Period

\* C16: clean_text is idempotent on text that is whitespace-normalized and
\* period-terminated: cleaning what clean_text returned changes nothing.
C16_CleanTextIdempotent ==
    pc = "recleaned" /\ WhitespaceNormalized(clean_in) /\ PeriodTerminated(clean_in)
        => clean_twice = clean_once

\* Idempotence holds for every text without a character reference that
\* names markup.
IdempotentWithoutReferences ==
    pc = "recleaned" /\ NavEsc \notin Range(clean_in) => clean_twice = clean_once

\* C17: the description is "No description" when the page has no meta
\* element named description and when that element's content attribute is
\* missing, empty or only whitespace; otherwise it is the content value
\* (without the whitespace around it).
C17_DescriptionDefault ==
    Extracted =>
        record.description =
            IF \/ ~page.meta.present
               \/ ~page.meta.has_content
               \/ Strip(page.meta.content) = <<>>
            THEN NoDescription
            ELSE Strip(page.meta.content)

\* The description of a page that has the meta element is its content value
\* without the whitespace around it, the empty text if there is none.
DescriptionOfPresentMeta ==
    Extracted /\ page.meta.present =>
        record.description =
            IF page.meta.has_content THEN Strip(page.meta.content) ELSE <<>>

====
